---- MODULE Spec2Model ----
(***************************************************************************)
(* Model of vector_t<float>::pack<float, float, float> (the v3 alias) of   *)
(* src/vector.hh: the contents array, the indexed accessors, the dot and   *)
(* length methods and the orientation methods of both definitions of the   *)
(* type that the file holds.                                               *)
(*                                                                         *)
(* Scalars.  A float is modelled as a record                               *)
(*     [k |-> "fin", n |-> numerator, d |-> denominator]  (lowest terms)   *)
(* or as one of the non-finite values k = "nan", "pinf", "ninf".           *)
(* Arithmetic follows IEEE-754 on the non-finite values and is exact on    *)
(* the finite ones: rounding of a finite quotient is not modelled, the     *)
(* sign of zero is not modelled, and sqrt is evaluated only where its      *)
(* result is a rational (ExactSqrt); remainderf is exact in IEEE-754.      *)
(* A failed assert ends the run (aborted).  The scalar overloads dot( T ),  *)
(* length( T ), length( const pack & ) and normalized( ) of the second      *)
(* definition are not part of the model.                                   *)
(***************************************************************************)
EXTENDS Integers, FiniteSets, TLC

VARIABLES obj, ref, ret, last, aborted, nops, copied

vars == <<obj, ref, ret, last, aborted, nops, copied>>

\* ------------------------------------------------------------------------
\* Program constants
\* ------------------------------------------------------------------------

\* constexpr static size_t Len = sizeof...( Args ), for v3 = pack<T, T, T>
Len == 3

\* indices of the three angles ("[0] = Pitch, [1] = Yaw, [2] = Roll")
PITCH == 0
YAW == 1
ROLL == 2

\* ------------------------------------------------------------------------
\* Bounds of the model
\* ------------------------------------------------------------------------

\* number of method calls explored after construction
MaxOps == 3

\* ------------------------------------------------------------------------
\* float values
\* ------------------------------------------------------------------------

Abs(i) == IF i < 0 THEN -i ELSE i

RECURSIVE GCD(_, _)
GCD(a, b) == IF b = 0 THEN a ELSE GCD(b, a % b)

\* the finite float n/d, d # 0, in lowest terms with a positive denominator
Fin(n, d) ==
    LET sn == IF d < 0 THEN -n ELSE n
        sd == Abs(d)
        g  == GCD(Abs(sn), sd)
    IN  [k |-> "fin", n |-> sn \div g, d |-> sd \div g]

F(i) == [k |-> "fin", n |-> i, d |-> 1]
NaN  == [k |-> "nan", n |-> 0, d |-> 1]
PInf == [k |-> "pinf", n |-> 0, d |-> 1]
NInf == [k |-> "ninf", n |-> 0, d |-> 1]

isfinite(x) == x.k = "fin"
IsNaN(x) == x.k = "nan"
IsInf(x) == x.k \in {"pinf", "ninf"}

\* sign of a non-NaN value: -1, 0 or 1
Sgn(x) ==
    CASE x.k = "pinf" -> 1
      [] x.k = "ninf" -> -1
      [] OTHER -> IF x.n > 0 THEN 1 ELSE IF x.n < 0 THEN -1 ELSE 0

Signed(s) == IF s > 0 THEN PInf ELSE NInf

\* x < y; false when either side is NaN
Lt(x, y) ==
    CASE IsNaN(x) \/ IsNaN(y) -> FALSE
      [] x.k = "pinf" -> FALSE
      [] y.k = "ninf" -> FALSE
      [] x.k = "ninf" -> TRUE
      [] y.k = "pinf" -> TRUE
      [] OTHER -> x.n * y.d < y.n * x.d

\* x == y; false when either side is NaN
Eq(x, y) == ~IsNaN(x) /\ ~IsNaN(y) /\ x = y

Le(x, y) == Lt(x, y) \/ Eq(x, y)

Neg(x) ==
    CASE x.k = "pinf" -> NInf
      [] x.k = "ninf" -> PInf
      [] x.k = "nan" -> NaN
      [] OTHER -> Fin(-x.n, x.d)

Add(x, y) ==
    CASE IsNaN(x) \/ IsNaN(y) -> NaN
      [] IsInf(x) /\ IsInf(y) -> IF x.k = y.k THEN x ELSE NaN
      [] IsInf(x) -> x
      [] IsInf(y) -> y
      [] OTHER ->
           LET g == GCD(x.d, y.d)
               l == (x.d \div g) * y.d
           IN  Fin(x.n * (l \div x.d) + y.n * (l \div y.d), l)

Sub(x, y) == Add(x, Neg(y))

Mul(x, y) ==
    CASE IsNaN(x) \/ IsNaN(y) -> NaN
      [] IsInf(x) \/ IsInf(y) ->
           IF Sgn(x) * Sgn(y) = 0 THEN NaN ELSE Signed(Sgn(x) * Sgn(y))
      [] OTHER ->
           LET g1 == GCD(Abs(x.n), y.d)
               g2 == GCD(Abs(y.n), x.d)
           IN  Fin((x.n \div g1) * (y.n \div g2), (x.d \div g2) * (y.d \div g1))

Div(x, y) ==
    CASE IsNaN(x) \/ IsNaN(y) -> NaN
      [] IsInf(x) /\ IsInf(y) -> NaN
      [] IsInf(x) -> IF Sgn(y) < 0 THEN Neg(x) ELSE x
      [] IsInf(y) -> F(0)
      [] y.n = 0 -> IF x.n = 0 THEN NaN ELSE Signed(x.n)
      [] OTHER -> Mul(x, Fin(y.d, y.n))

\* the largest r with r * r <= m, by bisection on lo..hi
RECURSIVE ISqrt(_, _, _)
ISqrt(m, lo, hi) ==
    IF lo >= hi THEN lo
    ELSE LET mid == (lo + hi + 1) \div 2
         IN  IF mid * mid <= m THEN ISqrt(m, mid, hi) ELSE ISqrt(m, lo, mid - 1)

Root(m) == ISqrt(m, 0, IF m < 46340 THEN m ELSE 46340)
IsSquare(m) == m >= 0 /\ Root(m) * Root(m) = m

\* sqrt( x ) has a result this model represents
ExactSqrt(x) == ~isfinite(x) \/ x.n < 0 \/ (IsSquare(x.n) /\ IsSquare(x.d))

sqrt(x) ==
    CASE x.k = "nan" -> NaN
      [] x.k = "pinf" -> PInf
      [] x.k = "ninf" -> NaN
      [] x.n < 0 -> NaN
      [] OTHER -> Fin(Root(x.n), Root(x.d))

\* faulty variant of remainderf: std::fmodf, the quotient truncated towards zero
fmodf(x, y) ==
    CASE IsNaN(x) \/ IsNaN(y) -> NaN
      [] IsInf(x) -> NaN
      [] IsInf(y) -> x
      [] y.n = 0 -> NaN
      [] OTHER ->
           LET q == Div(x, y)
               f == q.n \div q.d
               n == IF q.n < 0 /\ f * q.d # q.n THEN f + 1 ELSE f
           IN  Sub(x, Mul(F(n), y))

\* faulty variant of remainderf: a tie rounds away from zero instead of to even
remainderf_ties_away(x, y) ==
    CASE IsNaN(x) \/ IsNaN(y) -> NaN
      [] IsInf(x) -> NaN
      [] IsInf(y) -> x
      [] y.n = 0 -> NaN
      [] OTHER ->
           LET q  == Div(x, y)
               f  == q.n \div q.d
               r2 == 2 * (q.n - f * q.d)
               n  == IF r2 < q.d THEN f
                     ELSE IF r2 > q.d THEN f + 1
                     ELSE IF q.n < 0 THEN f ELSE f + 1
           IN  Sub(x, Mul(F(n), y))

\* std::remainderf( x, y ): x - n * y, n the integer nearest to x / y, a tie
\* going to the even n (IEEE-754 remainder; its result is exact)
remainderf(x, y) ==
    CASE IsNaN(x) \/ IsNaN(y) -> NaN
      [] IsInf(x) -> NaN
      [] IsInf(y) -> x
      [] y.n = 0 -> NaN
      [] OTHER ->
           LET q  == Div(x, y)
               f  == q.n \div q.d
               r2 == 2 * (q.n - f * q.d)
               n  == IF r2 < q.d THEN f
                     ELSE IF r2 > q.d THEN f + 1
                     ELSE IF f % 2 = 0 THEN f ELSE f + 1
           IN  Sub(x, Mul(F(n), y))

\* std::clamp<float>( v, lo, hi ): (v < lo) ? lo : (hi < v) ? hi : v
clamp(v, lo, hi) == IF Lt(v, lo) THEN lo ELSE IF Lt(hi, v) THEN hi ELSE v

\* atan2( y, sqrt( x2 ) ) * ( 180.F / M_PI ) narrowed to float: kept as a term
atan2deg(y, x2) == [k |-> "atan2deg", y |-> y, x2 |-> x2]

\* ------------------------------------------------------------------------
\* pack contents: Arr = std::array<T, Len>, indexed from 0
\* ------------------------------------------------------------------------

Idx == 0 .. (Len - 1)

\* Arr m_contents = Arr{}: the default-constructed pack
Zero == [i \in Idx |-> F(0)]

\* pack( const Args& ...args ) / initialize( args... )
initialize(a0, a1, a2) == [i \in Idx |-> IF i = 0 THEN a0 ELSE IF i = 1 THEN a1 ELSE a2]

\* constexpr get_size( )
get_size(c) == Len

\* the loop of get_dot<N>: result += contents[ i ] * contents[ i ], i = 0 .. N-1
RECURSIVE get_dot(_, _)
get_dot(contents, N) ==
    IF N = 0 THEN F(0)
    ELSE Add(get_dot(contents, N - 1), Mul(contents[N - 1], contents[N - 1]))

\* get_length<N>( ): sqrt( get_dot<N>( ) )
get_length(contents, N) == sqrt(get_dot(contents, N))

\* the loop of dot<N>( const pack & ): result += contents[ i ] * arg_contents[ i ]
RECURSIVE dot_loop(_, _, _)
dot_loop(contents, arg_contents, N) ==
    IF N = 0 THEN F(0)
    ELSE Add(dot_loop(contents, arg_contents, N - 1),
             Mul(contents[N - 1], arg_contents[N - 1]))

\* dot<N>( const pack &arg ): both arg_contents and contents are bound to
\* get_contents( ) of the receiver
dot(this, arg, N) ==
    LET arg_contents == this
        contents     == this
    IN  dot_loop(contents, arg_contents, N)

\* assert( arg.get_size( ) <= N ) of dot<N>( const pack & )
dot_assert(arg, N) == get_size(arg) <= N

\* assert( i < Len ) of at( i )
at_assert(i) == i < Len

\* normalize_angle( )
normalize_angle(c) ==
    [i \in Idx |->
        IF i = PITCH THEN (IF isfinite(c[PITCH]) THEN remainderf(c[PITCH], F(360)) ELSE F(0))
        ELSE IF i = YAW THEN (IF isfinite(c[YAW]) THEN remainderf(c[YAW], F(360)) ELSE F(0))
        ELSE F(0)]

\* clamp_angle( )
clamp_angle(c) ==
    [i \in Idx |->
        IF i = PITCH THEN clamp(c[PITCH], F(-89), F(89))
        ELSE IF i = YAW THEN clamp(c[YAW], F(-180), F(180))
        ELSE F(0)]

\* faulty variant of normalize_length: roll is not divided
normalize_length_keep_roll(c) ==
    LET length == get_length(c, Len)
    IN  IF ~Eq(length, F(0))
        THEN [i \in Idx |-> IF i = ROLL THEN c[i] ELSE Div(c[i], length)]
        ELSE [i \in Idx |-> IF i = ROLL THEN F(1) ELSE F(0)]

\* faulty variant of normalize_length: the zero length is not tested for
normalize_length_unguarded(c) ==
    LET length == get_length(c, Len)
    IN  [i \in Idx |-> Div(c[i], length)]

\* normalize_length( ) of the first definition
normalize_length(c) ==
    LET length == get_length(c, Len)
    IN  IF ~Eq(length, F(0))
        THEN [i \in Idx |-> Div(c[i], length)]
        ELSE [i \in Idx |-> IF i = ROLL THEN F(1) ELSE F(0)]

\* normalize( ) of the second definition
normalize(c) ==
    LET length == get_length(c, Len)
    IN  IF ~Eq(length, F(0))
        THEN [i \in Idx |-> Div(c[i], length)]
        ELSE [i \in Idx |-> IF i = 2 THEN F(1) ELSE F(0)]

\* faulty variant of get_angle: the sign test reads forward[ ROLL ]
get_angle_forward_roll(this) ==
    LET forward == this
        angles  == Zero
    IN  IF Eq(forward[PITCH], F(0)) /\ Eq(forward[YAW], F(0))
        THEN [angles EXCEPT ![PITCH] = IF Lt(F(0), forward[ROLL]) THEN F(-90) ELSE F(90),
                            ![YAW]   = F(0)]
        ELSE [angles EXCEPT ![PITCH] = atan2deg(Neg(forward[ROLL]), get_dot(forward, 2))]

\* get_angle( ): angles is a default-constructed pack, read before it is set
get_angle(this) ==
    LET forward == this
        angles  == Zero
    IN  IF Eq(forward[PITCH], F(0)) /\ Eq(forward[YAW], F(0))
        THEN [angles EXCEPT ![PITCH] = IF Lt(F(0), angles[ROLL]) THEN F(-90) ELSE F(90),
                            ![YAW]   = F(0)]
        ELSE [angles EXCEPT ![PITCH] = atan2deg(Neg(forward[ROLL]), get_dot(forward, 2))]

\* faulty variant of get_copy: the receiver itself is handed out (a reference, no copy)
get_copy_alias(this) == this

\* get_copy( ): auto _this = *this; return _this;  -- the object that holds the
\* returned pack is a new one, not the receiver
get_copy(this) == CHOOSE o \in {1, 2} : o # this

\* ------------------------------------------------------------------------
\* State
\*   obj[o]   contents of the pack object o
\*   ref[h]   the object the variable h names: "orig" is a pack, "copy" is
\*            a second pack that orig.get_copy( ) is assigned to
\*   ret      what the last call returned, as a pack or as a scalar
\*   last     the last call: method, receiver, template or index argument,
\*            and the contents of all objects before it
\*   aborted  an assert has failed
\*   nops     number of calls made
\*   copied   copy has been assigned the result of orig.get_copy( )
\* ------------------------------------------------------------------------

Objs == {1, 2}
Handles == {"orig", "copy"}

Other(h) == IF h = "orig" THEN "copy" ELSE "orig"

\* constructor arguments the model draws from
Inputs ==
    { initialize(F(450), F(-450), F(123)),
      initialize(NaN, F(10), F(5)),
      initialize(F(95), F(200), F(7)),
      initialize(F(-95), F(-200), F(7)),
      initialize(F(0), F(0), F(0)),
      initialize(F(3), F(4), F(0)),
      initialize(F(0), F(0), F(2)),
      initialize(F(0), F(0), F(-2)),
      initialize(F(540), F(-180), F(1)),
      initialize(F(1), F(2), F(2)),
      initialize(PInf, F(180), NInf) }

ArgInputs == { Zero, initialize(F(3), F(4), F(0)), initialize(F(4), F(-5), F(6)) }

\* values written through operator[] and at
WriteVals == { F(7) }

NoRet == [pack |-> Zero, scalar |-> F(0)]

Init ==
    /\ obj \in [Objs -> Inputs \cup ArgInputs]
    /\ obj[1] \in Inputs
    /\ obj[2] \in ArgInputs
    /\ ref = [h \in Handles |-> IF h = "orig" THEN 1 ELSE 2]
    /\ ret = NoRet
    /\ last = [op |-> "construct", h |-> "orig", arg |-> 0, pre |-> obj]
    /\ aborted = FALSE
    /\ nops = 0
    /\ copied = FALSE

\* a call of method op on the variable h
Call(op, h, a) ==
    /\ ~aborted
    /\ nops < MaxOps
    /\ nops' = nops + 1
    /\ last' = [op |-> op, h |-> h, arg |-> a, pre |-> obj]
    /\ copied' = (copied \/ op = "get_copy")

\* a call that writes c to its receiver and returns nothing
Mutate(op, h, c) ==
    /\ Call(op, h, 0)
    /\ obj' = [obj EXCEPT ![ref[h]] = c]
    /\ ret' = NoRet
    /\ UNCHANGED <<ref, aborted>>

\* a const call that returns the pack c
ReturnPack(op, h, c) ==
    /\ Call(op, h, 0)
    /\ ret' = [pack |-> c, scalar |-> F(0)]
    /\ UNCHANGED <<obj, ref, aborted>>

\* h[ i ] = x through operator[]( i ) -> T &
IndexWrite(h, i, x) ==
    /\ Call("operator[]", h, i)
    /\ obj' = [obj EXCEPT ![ref[h]][i] = x]
    /\ ret' = NoRet
    /\ UNCHANGED <<ref, aborted>>

\* h.at( i ) = x
At(h, i, x) ==
    /\ Call("at", h, i)
    /\ IF at_assert(i)
       THEN /\ obj' = [obj EXCEPT ![ref[h]][i] = x]
            /\ UNCHANGED aborted
       ELSE /\ aborted' = TRUE
            /\ UNCHANGED obj
    /\ ret' = NoRet
    /\ UNCHANGED ref

\* copy = orig.get_copy( )
GetCopy ==
    /\ Call("get_copy", "orig", 0)
    /\ LET o == get_copy(ref["orig"])
       IN  /\ obj' = [obj EXCEPT ![o] = obj[ref["orig"]]]
           /\ ref' = [ref EXCEPT !["copy"] = o]
    /\ ret' = [pack |-> obj[ref["orig"]], scalar |-> F(0)]
    /\ UNCHANGED aborted

\* h.dot<N>( other ), other the pack the other variable names
Dot(h, N) ==
    /\ Call("dot", h, N)
    /\ IF dot_assert(obj[ref[Other(h)]], N)
       THEN /\ ret' = [pack |-> Zero, scalar |-> dot(obj[ref[h]], obj[ref[Other(h)]], N)]
            /\ UNCHANGED aborted
       ELSE /\ aborted' = TRUE
            /\ ret' = NoRet
    /\ UNCHANGED <<obj, ref>>

NormalizeAngle(h) == Mutate("normalize_angle", h, normalize_angle(obj[ref[h]]))

\* normalized_angle( ): copy = get_copy( ); copy.normalize_angle( ); return copy
NormalizedAngle(h) == ReturnPack("normalized_angle", h, normalize_angle(obj[ref[h]]))

ClampAngle(h) == Mutate("clamp_angle", h, clamp_angle(obj[ref[h]]))

NormalizeLength(h) ==
    /\ ExactSqrt(get_dot(obj[ref[h]], Len))
    /\ Mutate("normalize_length", h, normalize_length(obj[ref[h]]))

\* normalized_length( ): copy = get_copy( ); copy.normalize_length( ); return copy
NormalizedLength(h) ==
    /\ ExactSqrt(get_dot(obj[ref[h]], Len))
    /\ ReturnPack("normalized_length", h, normalize_length(obj[ref[h]]))

Normalize(h) ==
    /\ ExactSqrt(get_dot(obj[ref[h]], Len))
    /\ Mutate("normalize", h, normalize(obj[ref[h]]))

GetAngle(h) == ReturnPack("get_angle", h, get_angle(obj[ref[h]]))

Next ==
    \/ \E h \in Handles, i \in Idx, x \in WriteVals : IndexWrite(h, i, x)
    \/ \E h \in Handles, i \in 0 .. Len, x \in WriteVals : At(h, i, x)
    \/ GetCopy
    \/ \E h \in Handles, N \in 0 .. Len : Dot(h, N)
    \/ \E h \in Handles : NormalizeAngle(h)
    \/ \E h \in Handles : NormalizedAngle(h)
    \/ \E h \in Handles : ClampAngle(h)
    \/ \E h \in Handles : NormalizeLength(h)
    \/ \E h \in Handles : NormalizedLength(h)
    \/ \E h \in Handles : Normalize(h)
    \/ \E h \in Handles : GetAngle(h)

Spec == Init /\ [][Next]_vars

TypeOK == /\ aborted \in BOOLEAN
          /\ nops \in 0 .. MaxOps
          /\ \A o \in Objs, i \in Idx : obj[o][i].k \in {"fin", "nan", "pinf", "ninf"}

\* ------------------------------------------------------------------------
\* Properties
\* ------------------------------------------------------------------------

\* contents of the receiver of the last call, after and before the call
Recv == obj[ref[last.h]]
Pre == last.pre[ref[last.h]]
\* contents of the pack the other variable names, after and before the call
Arg == obj[ref[Other(last.h)]]
PreArg == last.pre[ref[Other(last.h)]]

\* sum over i in [0, K) of a[i] * b[i]
RECURSIVE SumOfProducts(_, _, _)
SumOfProducts(a, b, K) ==
    IF K = 0 THEN F(0) ELSE Add(SumOfProducts(a, b, K - 1), Mul(a[K - 1], b[K - 1]))

\* x - y is a whole multiple of m
MultipleApart(x, y, m) == Div(Sub(x, y), m).k = "fin" /\ Div(Sub(x, y), m).d = 1

Max(x, y) == IF Lt(x, y) THEN y ELSE x
Min(x, y) == IF Lt(y, x) THEN y ELSE x

WriteOps == {"operator[]", "at", "normalize_angle", "clamp_angle", "normalize_length", "normalize"}

\* C1: a.dot<K>(other) returns the sum over i in [0, K) of a[i] * other[i]
C1_DotIsSumOfProducts ==
    (last.op = "dot" /\ ~aborted) => ret.scalar = SumOfProducts(Pre, PreArg, last.arg)

\* C2: dot<K>(other) is symmetric: the value a.dot<K>(b) returned is the value
\* of b.dot<K>(a)
C2_DotSymmetric ==
    (last.op = "dot" /\ ~aborted) => ret.scalar = dot(PreArg, Pre, last.arg)

\* C3: dot<K>(other) fails its assertion only when other has fewer than K
\* components: with K <= N and other of N components the call returns
C3_DotAssertOnlyOnShortArg ==
    (last.op = "dot" /\ last.arg <= get_size(PreArg)) => ~aborted

\* C4 as stated: normalize_angle() leaves each finite pitch and yaw reduced by
\* a multiple of 360 into (-180, 180], never -180, a non-finite one 0, roll 0
C4_NormalizeAngleHalfOpen ==
    last.op = "normalize_angle" =>
        /\ \A a \in {PITCH, YAW} :
              IF isfinite(Pre[a])
              THEN /\ Lt(F(-180), Recv[a]) /\ Le(Recv[a], F(180))
                   /\ MultipleApart(Pre[a], Recv[a], F(360))
              ELSE Recv[a] = F(0)
        /\ Recv[ROLL] = F(0)

\* C4 amended: normalize_angle() leaves each finite pitch and yaw reduced by a
\* multiple of 360 into the closed range [-180, 180], a non-finite one 0, and
\* roll 0
C4_NormalizeAngleClosed ==
    last.op = "normalize_angle" =>
        /\ \A a \in {PITCH, YAW} :
              IF isfinite(Pre[a])
              THEN /\ Le(F(-180), Recv[a]) /\ Le(Recv[a], F(180))
                   /\ MultipleApart(Pre[a], Recv[a], F(360))
              ELSE Recv[a] = F(0)
        /\ Recv[ROLL] = F(0)

C4_Witness ==
    /\ last.op = "normalize_angle"
    /\ Pre = initialize(F(540), F(-180), F(1))
    /\ Recv = initialize(F(-180), F(-180), F(0))

\* C5: normalize_angle() is idempotent: when it has run on a pack with finite
\* components and runs again on the same pack, the second run leaves pitch,
\* yaw and roll as the first left them
C5_NormalizeAngleIdempotent ==
    [][(/\ last.op = "normalize_angle"
        /\ \A i \in Idx : isfinite(Pre[i])
        /\ last'.op = "normalize_angle"
        /\ last'.h = last.h)
       => obj'[ref[last.h]] = obj[ref[last.h]]]_vars

\* the second of two normalize_angle() calls in a row has run, on what the
\* first made of (450, -450, 123)
C5_Witness ==
    /\ last.op = "normalize_angle"
    /\ nops >= 2
    /\ Pre = initialize(F(90), F(-90), F(0))
    /\ Recv = initialize(F(90), F(-90), F(0))

C7_ZeroVectorFallback ==
    /\ (last.op \in {"normalize_length", "normalize"} /\ Pre = Zero) =>
           Recv = initialize(F(0), F(0), F(1))
    /\ (last.op = "normalized_length" /\ Pre = Zero) =>
           /\ ret.pack = initialize(F(0), F(0), F(1))
           /\ Recv = Zero

C7_Witness ==
    /\ last.op = "normalized_length"
    /\ Pre = Zero
    /\ ret.pack = initialize(F(0), F(0), F(1))
    /\ Recv = Zero

\* C8: clamp_angle() on (p, y, r) leaves pitch = min(max(p,-89),89)
\* in [-89, 89], yaw = min(max(y,-180),180) in [-180, 180], roll = 0, and a
\* second clamp_angle() changes nothing
C8_ClampAngleAny ==
    last.op = "clamp_angle" =>
        /\ Recv[PITCH] = Min(Max(Pre[PITCH], F(-89)), F(89))
        /\ Recv[YAW] = Min(Max(Pre[YAW], F(-180)), F(180))
        /\ Le(F(-89), Recv[PITCH]) /\ Le(Recv[PITCH], F(89))
        /\ Le(F(-180), Recv[YAW]) /\ Le(Recv[YAW], F(180))
        /\ Recv[ROLL] = F(0)
        /\ clamp_angle(Recv) = Recv

\* what does hold of clamp_angle(): roll = 0 and a second clamp_angle()
\* changes nothing; a pitch or yaw that is not NaN is clamped as C8 says
C8_ClampAngleNotNaN ==
    last.op = "clamp_angle" =>
        /\ ~IsNaN(Pre[PITCH]) =>
              /\ Recv[PITCH] = Min(Max(Pre[PITCH], F(-89)), F(89))
              /\ Le(F(-89), Recv[PITCH]) /\ Le(Recv[PITCH], F(89))
        /\ ~IsNaN(Pre[YAW]) =>
              /\ Recv[YAW] = Min(Max(Pre[YAW], F(-180)), F(180))
              /\ Le(F(-180), Recv[YAW]) /\ Le(Recv[YAW], F(180))
        /\ Recv[ROLL] = F(0)
        /\ clamp_angle(Recv) = Recv

\* C9: get_copy() returns a pack equal component by component to the
\* receiver; from then on a write to the copy leaves every component of the
\* original as it was, and a write to the original leaves the copy as it was
C9_CopyIndependent ==
    /\ last.op = "get_copy" =>
           /\ \A i \in Idx : obj[ref["copy"]][i] = last.pre[ref["orig"]][i]
           /\ ret.pack = last.pre[ref["orig"]]
           /\ obj[ref["orig"]] = last.pre[ref["orig"]]
    /\ (copied /\ last.op \in WriteOps) => \A i \in Idx : Arg[i] = PreArg[i]

C9_Witness ==
    /\ copied
    /\ last.op = "normalize_length"
    /\ last.h = "copy"
    /\ Recv # Pre
    /\ obj[ref["orig"]] = last.pre[ref["orig"]]
    /\ obj[ref["orig"]] # obj[ref["copy"]]

\* C10: get_angle() on a pack whose components 0 and 1 are both zero returns
\* (90, 0, 0) whatever component 2 is, and get_angle() never changes its
\* receiver
C10_GetAngleZeroDirection ==
    last.op = "get_angle" =>
        /\ (Eq(Pre[PITCH], F(0)) /\ Eq(Pre[YAW], F(0))) =>
               ret.pack = initialize(F(90), F(0), F(0))
        /\ obj = last.pre

C10_Witness ==
    /\ last.op = "get_angle"
    /\ Pre = initialize(F(0), F(0), F(2))
    /\ ret.pack = initialize(F(90), F(0), F(0))
    /\ Recv = Pre

====
